---------------------------- MODULE Spec2Model ----------------------------
(***************************************************************************)
(* Model of scripts/update_snowtams.py: the block extractor                *)
(* (extract_text_blocks), the severity classifier (snowtam_severity), the  *)
(* retrying fetch (fetch_url) and the per-site loop of main.               *)
(*                                                                         *)
(* Text.  A Python str is modelled as a sequence of tokens.  A token is a  *)
(* piece of text that is either one whitespace character (" ", "\n",       *)
(* "\t"), one digit ("0".."9"), one punctuation character, or a run of     *)
(* letters/digits that does not begin with a digit.  The string a          *)
(* sequence stands for is the concatenation of its tokens, so two          *)
(* neighbouring non-whitespace tokens form one word ("SW" \o "LH0012" is   *)
(* the word SWLH0012).  The keywords the program searches for are          *)
(* sequences of such tokens; the alphabet below holds no token of which a  *)
(* keyword is a proper part, so a substring search of the program is a     *)
(* search for a contiguous sub-sequence here.  Indexes are 1-based; the    *)
(* value 0 stands for Python's "not found" (-1 / ValueError).              *)
(***************************************************************************)
EXTENDS Integers, Sequences, FiniteSets, TLC

VARIABLES
    pc,               \* position of the operation being run
    raw, decode,      \* snowtam_severity: its two arguments
    verdict,          \* snowtam_severity: the (severity, summary) returned
    text,             \* extract_text_blocks: soup.get_text("\n")
    blocks,           \* extract_text_blocks: the blocks returned
    retries,          \* fetch_url: parameter
    backoff_s,        \* fetch_url: parameter
    attempt,          \* fetch_url: loop variable
    last_err,         \* fetch_url: local
    sleeps,           \* fetch_url: the time.sleep calls made, in order
    requests,         \* fetch_url: the urlopen outcomes, in order
    fret,             \* fetch_url: how the call ended
    n,                \* main: loop counter
    status_airports,  \* main: icao -> status record
    fetched,          \* main: icao -> how the fetch of its page ended (history)
    paced             \* main: number of pacing sleeps

vars == <<pc, raw, decode, verdict, text, blocks, retries, backoff_s, attempt,
          last_err, sleeps, requests, fret, n, status_airports, fetched, paced>>

NONE == "None"

-----------------------------------------------------------------------------
(* str primitives                                                          *)

WS == {" ", "\n", "\t"}

DIGITS == <<"0", "1", "2", "3", "4", "5", "6", "7", "8", "9">>

IsDigit(t) == \E i \in 1..Len(DIGITS) : DIGITS[i] = t

\* int(m.group(k)) for a one-digit group
IntOf(t) == (CHOOSE i \in 1..Len(DIGITS) : DIGITS[i] = t) - 1

\* str.upper(), token by token
UpperTok(t) ==
    CASE t = "clsd"      -> "CLSD"
      [] t = "Clsd"      -> "CLSD"
      [] t = "closed"    -> "CLOSED"
      [] t = "poor"      -> "POOR"
      [] t = "Poor"      -> "POOR"
      [] t = "braking"   -> "BRAKING"
      [] t = "action"    -> "ACTION"
      [] t = "surface"   -> "SURFACE"
      [] t = "condition" -> "CONDITION"
      [] t = "code"      -> "CODE"
      [] t = "good"      -> "GOOD"
      [] OTHER           -> t

Upper(s) == [i \in 1..Len(s) |-> UpperTok(s[i])]

\* the slice of s from index i to index j inclusive; as a Python slice it is
\* clipped to the sequence and empty when the bounds cross
Slice(s, i, j) ==
    LET lo == IF i < 1 THEN 1 ELSE i
        hi == IF j > Len(s) THEN Len(s) ELSE j
    IN IF lo > hi THEN <<>> ELSE SubSeq(s, lo, hi)

MatchesAt(s, p, i) ==
    /\ i >= 1
    /\ i + Len(p) - 1 <= Len(s)
    /\ SubSeq(s, i, i + Len(p) - 1) = p

\* p in s
Contains(s, p) == \E i \in 1..(Len(s) + 1) : MatchesAt(s, p, i)

\* s.find(p, from): the least index >= from where p occurs, 0 when none
Find(s, p, from) ==
    IF \E i \in from..(Len(s) + 1) : MatchesAt(s, p, i)
    THEN CHOOSE i \in from..(Len(s) + 1) :
            /\ MatchesAt(s, p, i)
            /\ \A j \in from..(i - 1) : ~MatchesAt(s, p, j)
    ELSE 0

IsBlankStr(s) == \A i \in 1..Len(s) : s[i] \in WS

\* s.rstrip()
RStrip(s) ==
    IF IsBlankStr(s) THEN <<>>
    ELSE LET e == CHOOSE k \in 1..Len(s) :
                     s[k] \notin WS /\ \A j \in (k + 1)..Len(s) : s[j] \in WS
         IN SubSeq(s, 1, e)

\* mutant: strip() that strips nothing
Strip_Nothing(s) == s

\* s.strip()
Strip(s) ==
    IF IsBlankStr(s) THEN <<>>
    ELSE LET r == RStrip(s)
             b == CHOOSE k \in 1..Len(r) :
                     r[k] \notin WS /\ \A j \in 1..(k - 1) : r[j] \in WS
         IN SubSeq(r, b, Len(r))

\* s.endswith(p)
EndsWith(s, p) == Len(s) >= Len(p) /\ SubSeq(s, Len(s) - Len(p) + 1, Len(s)) = p

RECURSIVE Flatten(_)
Flatten(ss) == IF ss = <<>> THEN <<>> ELSE Head(ss) \o Flatten(Tail(ss))

-----------------------------------------------------------------------------
(* snowtam_severity                                                        *)

KW_CLOSED      == <<"CLOSED">>
KW_CLSD        == <<"CLSD">>
KW_RWY_CLSD    == <<"RWY", " ", "CLSD">>
KW_RUNWAY_CLSD == <<"RUNWAY", " ", "CLSD">>
KW_BRAKING     == <<"BRAKING", " ", "ACTION">>
KW_POOR        == <<"POOR">>
KW_SP_POOR     == <<" ", "POOR">>
KW_SCC         == <<"SURFACE", " ", "CONDITION", " ", "CODE">>

ClosureIndicators == {KW_CLOSED, KW_CLSD, KW_RWY_CLSD, KW_RUNWAY_CLSD}

\* mutant: the concatenation without .upper()
UpperOf_CaseKept(r, d) == r \o <<"\n">> \o d

\* upper = (raw + "\n" + decode).upper()
UpperOf(r, d) == Upper(r \o <<"\n">> \o d)

\* any(k in upper for k in ["CLOSED", "CLSD", "RWY CLSD", "RUNWAY CLSD"])
HasClosure(upper) == \E k \in ClosureIndicators : Contains(upper, k)

\* mutant: POOR must follow BRAKING ACTION directly
HasBrakingPoor_Adjacent(upper) == Contains(upper, KW_BRAKING \o <<" ">> \o KW_POOR)

\* "BRAKING ACTION" in upper and "POOR" in upper
HasBrakingPoor(upper) == Contains(upper, KW_BRAKING) /\ Contains(upper, KW_POOR)

\* has_poor = " POOR" in upper
HasPoor(upper) == Contains(upper, KW_SP_POOR)

\* \s+ starting at p: the index of the first non-whitespace token at or after p
RECURSIVE SkipWs(_, _)
SkipWs(s, p) == IF p <= Len(s) /\ s[p] \in WS THEN SkipWs(s, p + 1) ELSE p

\* \s+([0-9]) at p: the index of the digit, 0 when it does not match
WsDigit(s, p) ==
    LET q == SkipWs(s, p)
    IN IF q > p /\ q <= Len(s) /\ IsDigit(s[q]) THEN q ELSE 0

\* mutant: the pattern with two digit groups only
MatchCodes_TwoGroups(s, i) ==
    IF ~MatchesAt(s, KW_SCC, i) THEN [ok |-> FALSE]
    ELSE LET d1 == WsDigit(s, i + Len(KW_SCC))
         IN IF d1 = 0 THEN [ok |-> FALSE]
            ELSE LET d2 == WsDigit(s, d1 + 1)
                 IN IF d2 = 0 THEN [ok |-> FALSE]
                    ELSE [ok |-> TRUE, end |-> d2 + 1,
                          groups |-> <<IntOf(s[d1]), IntOf(s[d2])>>]

\* r"SURFACE CONDITION CODE\s+([0-9])\s+([0-9])\s+([0-9])" matched at i
MatchCodes(s, i) ==
    IF ~MatchesAt(s, KW_SCC, i) THEN [ok |-> FALSE]
    ELSE LET d1 == WsDigit(s, i + Len(KW_SCC))
         IN IF d1 = 0 THEN [ok |-> FALSE]
            ELSE LET d2 == WsDigit(s, d1 + 1)
                 IN IF d2 = 0 THEN [ok |-> FALSE]
                    ELSE LET d3 == WsDigit(s, d2 + 1)
                         IN IF d3 = 0 THEN [ok |-> FALSE]
                            ELSE [ok |-> TRUE, end |-> d3 + 1,
                                  groups |-> <<IntOf(s[d1]), IntOf(s[d2]), IntOf(s[d3])>>]

\* for m in re.finditer(...): codes.extend([...]), scanning from position i
RECURSIVE FindCodes(_, _)
FindCodes(s, i) ==
    IF i > Len(s) THEN <<>>
    ELSE LET m == MatchCodes(s, i)
         IN IF m.ok THEN m.groups \o FindCodes(s, m.end)
            ELSE FindCodes(s, i + 1)

\* codes, as filled from decode.upper()
CodesOf(d) == FindCodes(Upper(d), 1)

\* mutant: the first code instead of the least
Min_First(codes) == codes[1]

\* min(codes)
Min(codes) == CHOOSE m \in {codes[i] : i \in 1..Len(codes)} :
                  \A i \in 1..Len(codes) : m <= codes[i]

\* the tier chosen from min_code and has_poor
TierOf(min_code, has_poor) ==
    LET sev == IF min_code <= 2 THEN "red"
               ELSE IF 3 <= min_code /\ min_code <= 4 THEN "orange"
               ELSE "yellow"
    IN IF has_poor /\ sev = "yellow" THEN "orange" ELSE sev

\* f"minRWYCC={min_code}; poorAreas={has_poor}"
CodeSummary(min_code, has_poor) == <<"minRWYCC=", min_code, "; poorAreas=", has_poor>>

snowtam_severity(r, d) ==
    IF Strip(r) = <<>> THEN <<"ok", "No valid SNOWTAM">>
    ELSE LET upper == UpperOf(r, d)
         IN IF HasClosure(upper) THEN <<"red", "Runway closed indicator found">>
            ELSE IF HasBrakingPoor(upper) THEN <<"red", "Braking action POOR">>
            ELSE LET codes    == CodesOf(d)
                     has_poor == HasPoor(upper)
                 IN IF codes # <<>>
                    THEN <<TierOf(Min(codes), has_poor), CodeSummary(Min(codes), has_poor)>>
                    ELSE IF has_poor
                         THEN <<"orange", "Could not parse RWYCC; POOR movement area noted">>
                         ELSE <<"yellow", "Could not parse RWYCC; SNOWTAM present">>


-----------------------------------------------------------------------------
(* extract_text_blocks.  The received-time text, which no operation below  *)
(* reads, is left out of the blocks returned.                              *)

KW_SW      == <<"SW">>
KW_SNOWTAM == <<"SNOWTAM">>
KW_UPLD    == <<"UNOFFICIAL", " ", "PLAIN", " ", "LANGUAGE", " ", "DECODE">>
KW_OPP     == KW_UPLD \o <<" ", "OPPOSITE", " ", "DIRECTION">>
KW_SELECT  == <<"Select", " ", "voice:">>

Window == 120      \* lines[start_idx: start_idx+120]
Ahead  == 5        \* lines[i:i+5]

\* text.splitlines(): line k lies between the (k-1)-th and the k-th line
\* break; a line break at the very end opens no further line
SplitLines(s) ==
    LET NL     == { i \in 1..Len(s) : s[i] = "\n" }
        nth(k) == IF k = 0 THEN 0
                  ELSE IF k > Cardinality(NL) THEN Len(s) + 1
                  ELSE CHOOSE p \in NL : Cardinality({ q \in NL : q <= p }) = k
        count  == IF s = <<>> THEN 0
                  ELSE IF s[Len(s)] = "\n" THEN Cardinality(NL)
                  ELSE Cardinality(NL) + 1
    IN [k \in 1..count |-> Slice(s, nth(k - 1) + 1, nth(k) - 1)]

\* sep.join(ls), computed by halves
RECURSIVE Join(_, _)
Join(ls, sep) ==
    IF ls = <<>> THEN <<>>
    ELSE IF Len(ls) = 1 THEN ls[1]
    ELSE LET h == Len(ls) \div 2
         IN Join(SubSeq(ls, 1, h), sep) \o sep \o Join(SubSeq(ls, h + 1, Len(ls)), sep)

\* lines = [ln.rstrip() for ln in text.splitlines() if ln.strip() != ""]
LinesOf(t) ==
    LET kept == SelectSeq(SplitLines(t), LAMBDA ln : Strip(ln) # <<>>)
    IN [i \in 1..Len(kept) |-> RStrip(kept[i])]

\* ln.split()
RECURSIVE Split(_)
Split(ln) ==
    LET b == SkipWs(ln, 1)
    IN IF b > Len(ln) THEN <<>>
       ELSE LET ends == { q \in b..Len(ln) : q = Len(ln) \/ ln[q + 1] \in WS }
                e    == CHOOSE q \in ends : \A r \in ends : q <= r
            IN <<SubSeq(ln, b, e)>> \o Split(Slice(ln, e + 1, Len(ln)))

\* the number of characters of a token made of [A-Z0-9] only; 0 for a token
\* that holds any other character
UpperAlnumLen(t) ==
    IF IsDigit(t) THEN 1
    ELSE CASE t = "SW" -> 2
           [] t \in {"RWY"} -> 3
           [] t \in {"LHBP", "LROP", "EPWA", "CLSD", "POOR", "CODE"} -> 4
           [] t \in {"PLAIN"} -> 5
           [] t \in {"LH0012", "DECODE", "CLOSED", "ACTION", "RUNWAY"} -> 6
           [] t \in {"SNOWTAM", "SURFACE", "BRAKING"} -> 7
           [] t \in {"LANGUAGE", "OPPOSITE"} -> 8
           [] t \in {"DIRECTION", "CONDITION"} -> 9
           [] t \in {"UNOFFICIAL"} -> 10
           [] OTHER -> 0

RECURSIVE SumLen(_)
SumLen(w) == IF w = <<>> THEN 0 ELSE UpperAlnumLen(Head(w)) + SumLen(Tail(w))

\* re.fullmatch(r"[A-Z0-9]{4}", w)
FullMatchIcao(w) ==
    /\ \A k \in 1..Len(w) : UpperAlnumLen(w[k]) > 0
    /\ SumLen(w) = 4

\* ln.startswith("SW")
StartsWithSW(ln) == MatchesAt(ln, KW_SW, 1)

\* the three tests of the start loop on line i; the test of line 148 is
\* kept although every line that passes it passes the test of line 145
IsStart(lines, i) ==
    LET ln == lines[i]
    IN \/ StartsWithSW(ln)
          /\ Contains(Join(Slice(lines, i, i + Ahead - 1), <<" ">>), KW_SNOWTAM)
       \/ StartsWithSW(ln) /\ Contains(ln, KW_SNOWTAM)
       \/ StartsWithSW(ln) /\ Len(Split(ln)) >= 3 /\ FullMatchIcao(Split(ln)[2])

\* start_idx, 0 for None
StartIdx(lines) ==
    IF \E i \in 1..Len(lines) : IsStart(lines, i)
    THEN CHOOSE i \in 1..Len(lines) :
            IsStart(lines, i) /\ \A j \in 1..(i - 1) : ~IsStart(lines, j)
    ELSE 0

\* mutant: only ")" ends a report, ")." does not
EndsParen_NoPeriod(ln) == EndsWith(Strip(ln), <<")">>)

\* ln.strip().endswith(").") or ln.strip().endswith(")")
EndsParen(ln) == EndsWith(Strip(ln), <<")", ".">>) \/ EndsWith(Strip(ln), <<")">>)

\* "UNOFFICIAL PLAIN LANGUAGE DECODE" in "\n".join(lines[start_idx: start_idx+120])
DecodeInWindow(lines, start_idx) ==
    Contains(Join(Slice(lines, start_idx, start_idx + Window - 1), <<"\n">>), KW_UPLD)

\* collected: the loop over lines[start_idx:] appends every line up to and
\* including the first one at which it breaks
Collect(lines, start_idx) ==
    LET in_window == DecodeInWindow(lines, start_idx)
        breaks    == { k \in start_idx..Len(lines) : EndsParen(lines[k]) /\ in_window }
        last      == IF breaks = {} THEN Len(lines)
                     ELSE CHOOSE k \in breaks : \A j \in breaks : k <= j
    IN Slice(lines, start_idx, last)

\* raw
RawBlock(t) ==
    LET lines     == LinesOf(t)
        start_idx == StartIdx(lines)
    IN IF start_idx = 0 THEN <<>>
       ELSE Strip(Join(Collect(lines, start_idx), <<"\n">>))

\* mutant: the slice runs to the end of the text whatever follows
slice_between_ToEnd(t, head, next_head) ==
    LET a == Find(t, head, 1)
    IN IF a = 0 THEN <<>>
       ELSE Strip(Slice(t, a + Len(head), Len(t)))

slice_between(t, head, next_head) ==
    LET a == Find(t, head, 1)
    IN IF a = 0 THEN <<>>
       ELSE LET f == Find(t, next_head, a + Len(head))
                b == IF f = 0 THEN Len(t) + 1 ELSE f
            IN Strip(Slice(t, a + Len(head), b - 1))

extract_text_blocks(t) ==
    [ raw     |-> RawBlock(t),
      decode  |-> slice_between(t, KW_UPLD, KW_OPP),
      decode2 |-> slice_between(t, KW_OPP, KW_SELECT) ]

-----------------------------------------------------------------------------
(* Inputs of snowtam_severity                                              *)

MaxCode == 5       \* surface condition codes 0..MaxCode appear in the inputs

CodeTok(k) == DIGITS[k + 1]

Codes == 0..MaxCode

\* "SURFACE CONDITION CODE a b c"
Triplet(a, b, c) == KW_SCC \o <<" ", CodeTok(a), " ", CodeTok(b), " ", CodeTok(c)>>

KeywordFrags ==
    { <<>>,
      <<" ", "CLSD">>, <<"x", "clsd", "x">>, <<" ", "Clsd">>, <<" ", "closed">>,
      <<" ", "RWY", " ", "CLSD">>,
      <<" ", "BRAKING", " ", "ACTION">>, <<" ", "braking", " ", "action", " ", "good">>,
      <<" ", "BRAKING", "\n", "ACTION">>,
      <<" ", "POOR">>, <<"POOR">>, <<"\n", "poor">>, <<" ", "Poor">> }

RawBases ==
    { <<>>, <<" ", "\n", "\t">>,
      <<"SW", "LH0012", " ", "LHBP">>,
      <<"SW", "LH0012", " ", "LHBP", "\n">> \o Triplet(1, 1, 1) }

RawKeywordFrags ==
    { <<>>, <<" ">>, <<" ", "clsd">>, <<" ", "BRAKING", " ", "ACTION">>,
      <<" ", "POOR">>, <<"\n", "POOR">> }

RawInputs == { b \o k : b \in RawBases, k \in RawKeywordFrags }

\* every triplet over the codes: the least code stands at any of the places
AllTriplets == { Triplet(a, b, c) : a \in Codes, b \in Codes, c \in Codes }

TripletKeywordFrags ==
    { <<>>, <<" ", "POOR">>, <<"x", "clsd", "x">>, <<" ", "BRAKING", " ", "ACTION">> }

CodeFrags ==
    { <<>>, <<"x">> }
    \cup { Triplet(a, a, a) : a \in Codes }
    \cup { Triplet(a, a, a) \o <<"\n">> \o Triplet(b, b, b) : a \in Codes, b \in {0, MaxCode} }
    \cup { KW_SCC \o <<" ", CodeTok(a), " ", CodeTok(a)>> : a \in {1, 5} }
    \cup { KW_SCC \o <<CodeTok(a), " ", CodeTok(a), " ", CodeTok(a)>> : a \in {1, 5} }
    \cup { KW_SCC \o <<" ", CodeTok(a), CodeTok(a), " ", CodeTok(a), " ", CodeTok(a)>> : a \in {1, 5} }
    \cup { KW_SCC \o <<"\n", "\t", CodeTok(a), " ", " ", CodeTok(a), "\n", CodeTok(a), CodeTok(1)>> : a \in {3, 5} }
    \cup { <<"surface", " ", "condition", " ", "code", " ", CodeTok(a), " ", CodeTok(a), " ", CodeTok(a)>> : a \in {2, 5} }
    \cup { <<"SURFACE", " ", " ", "CONDITION", " ", "CODE", " ", CodeTok(a), " ", CodeTok(a), " ", CodeTok(a)>> : a \in {2, 5} }

DecodeInputs ==
    { c \o k : c \in CodeFrags, k \in KeywordFrags }
    \cup { c \o k : c \in AllTriplets, k \in TripletKeywordFrags }

-----------------------------------------------------------------------------
(* Values of the variables an operation does not use                       *)

IdleClassify == raw = <<>> /\ decode = <<>> /\ verdict = NONE
IdleExtract  == text = <<>> /\ blocks = NONE
IdleFetch    == /\ retries = 0 /\ backoff_s = 0 /\ attempt = 0 /\ last_err = NONE
                /\ sleeps = <<>> /\ requests = <<>> /\ fret = [kind |-> "none"]
IdleMain     == n = 0 /\ status_airports = <<>> /\ fetched = <<>> /\ paced = 0

classifyVars == <<raw, decode, verdict>>
extractVars  == <<text, blocks>>
fetchVars    == <<retries, backoff_s, attempt, last_err, sleeps, requests, fret>>
mainVars     == <<n, status_airports, fetched, paced>>

-----------------------------------------------------------------------------
(* Specification of the classifier: one call of snowtam_severity           *)

InitClassify ==
    /\ pc = "classify"
    /\ raw \in RawInputs
    /\ decode \in DecodeInputs
    /\ verdict = NONE
    /\ IdleExtract /\ IdleFetch /\ IdleMain

Classify ==
    /\ pc = "classify"
    /\ verdict' = snowtam_severity(raw, decode)
    /\ pc' = "classified"
    /\ UNCHANGED <<raw, decode, extractVars, fetchVars, mainVars>>

NextClassify == Classify

SpecClassify == InitClassify /\ [][NextClassify]_vars


-----------------------------------------------------------------------------
(* Inputs of extract_text_blocks                                           *)

MaxFrags == 5      \* heading texts are made of at most MaxFrags fragments
MaxLines == 4      \* line texts are made of at most MaxLines lines
MaxOver  == 2      \* long texts reach MaxOver lines beyond the window
MaxGap   == 5      \* at most MaxGap lines between an SW line and SNOWTAM

RECURSIVE SeqsUpTo(_, _)
SeqsUpTo(S, k) ==
    IF k = 0 THEN {<<>>}
    ELSE LET shorter == SeqsUpTo(S, k - 1)
         IN shorter \cup { Append(q, x) : q \in shorter, x \in S }

HeadFrags == { KW_UPLD, KW_OPP, KW_SELECT, <<"x">>, <<" ", "\n">> }

HeadingTexts == { Flatten(fs) : fs \in SeqsUpTo(HeadFrags, MaxFrags) }

HeaderLine == <<"SW", "LH0012", " ", "LHBP", " ", "0", "1">>
SwLine     == <<"SW", "LH0012">>
ParenLine  == <<"x", ")">>
FillLine   == <<"x">>

LineSamples ==
    { HeaderLine, SwLine, ParenLine, FillLine, KW_UPLD,
      <<"(", "SNOWTAM", " ", "0", "1", "2", "3">>,
      <<"x", ")", ".", " ">> }

LineTexts == { Join(ls, <<"\n">>) : ls \in SeqsUpTo(LineSamples, MaxLines) }

\* lines that only look like a header: a lower-case site code, a second
\* word of another length, leading whitespace; and a blank line in a report
OddLines ==
    { <<"SW", "x", " ", "lhbp", " ", "x">>,
      <<"SW", "LH0012", " ", "LHBP", "0", " ", "1">>,
      <<"SW", " ", "SW", "SW", " ", "x">>,
      <<" ", "SW", "LH0012", " ", "LHBP", " ", "0", "1">>,
      <<" ", "\t">> }

OddTexts ==
    { Join(<<a, b, ParenLine, KW_UPLD>>, <<"\n">>) : a \in OddLines, b \in OddLines \cup {HeaderLine} }

Fill(k) == [i \in 1..k |-> FillLine]

\* a header, k filler lines, the decode heading, a line ending with ")" and
\* one more line: the heading stands at line k + 2 of the block
LongTexts ==
    { Join(<<HeaderLine>> \o Fill(k) \o <<KW_UPLD, ParenLine, FillLine>>, <<"\n">>) :
        k \in (Window - 3)..(Window - 2 + MaxOver) }

\* an SW line, k filler lines, then a SNOWTAM line
GapTexts ==
    { Join(<<SwLine>> \o Fill(k) \o <<KW_SNOWTAM, ParenLine>>, <<"\n">>) : k \in 0..MaxGap }

ExtractInputs == HeadingTexts \cup LineTexts \cup OddTexts \cup LongTexts \cup GapTexts

-----------------------------------------------------------------------------
(* Specification of the extractor: one call of extract_text_blocks         *)

InitExtract ==
    /\ pc = "extract"
    /\ text \in ExtractInputs
    /\ blocks = NONE
    /\ IdleClassify /\ IdleFetch /\ IdleMain

Extract ==
    /\ pc = "extract"
    /\ blocks' = extract_text_blocks(text)
    /\ pc' = "extracted"
    /\ UNCHANGED <<text, classifyVars, fetchVars, mainVars>>

NextExtract == Extract

SpecExtract == InitExtract /\ [][NextExtract]_vars

-----------------------------------------------------------------------------
(* fetch_url.  One urlopen(...).read() either gives a body or raises; the  *)
(* except clause of line 63 catches the classes of CaughtErrors (and their *)
(* subclasses) and lets every other exception leave the function.          *)

CaughtErrors == {"HTTPError", "URLError", "TimeoutError", "OSError"}

\* the exceptions a request raises in the model: two that line 63 catches,
\* one that it does not (urlopen raises ValueError for a malformed URL)
RaisedErrors == {"HTTPError", "TimeoutError", "ValueError"}

MaxRetries == 3    \* fetch_url is called with retries in 0..MaxRetries
MaxBackoff == 2    \* and with backoff_s in 1..MaxBackoff

\* the pages a request returns
Pages ==
    { <<"x">>,
      Join(<<HeaderLine, <<"x", ")">>, KW_UPLD, Triplet(5, 5, 5), KW_OPP, Triplet(3, 3, 3),
             KW_SELECT>>, <<"\n">>),
      Join(<<HeaderLine, <<"RWY", " ", "CLSD", ")">>, KW_UPLD, Triplet(5, 5, 5)>>, <<"\n">>),
      Join(<<HeaderLine, <<"x", " ", "POOR", ")", ".">>, KW_UPLD, <<"x">>>>, <<"\n">>) }

\* how a call of fetch_url ended; Pending while it runs
Pending        == [kind |-> "none"]
Returned(body) == [kind |-> "return", body |-> body]
Raised(err)    == [kind |-> "raise", err |-> err]

\* the state at the first line of fetch_url
FetchEntry(r, b) ==
    /\ retries = r
    /\ backoff_s = b
    /\ attempt = 1
    /\ last_err = NONE
    /\ sleeps = <<>>
    /\ requests = <<>>
    /\ fret = Pending

\* lines 60-62: the request succeeds and its body is returned
FetchSuccess ==
    /\ pc = "fetch_try"
    /\ attempt <= retries
    /\ \E body \in Pages :
         /\ requests' = Append(requests, Returned(body))
         /\ fret' = Returned(body)
    /\ pc' = "fetch_done"
    /\ UNCHANGED <<retries, backoff_s, attempt, last_err, sleeps>>
    /\ UNCHANGED <<classifyVars, extractVars, mainVars>>

\* lines 63-68: the request raises an exception the except clause catches
FetchCaughtError ==
    /\ pc = "fetch_try"
    /\ attempt <= retries
    /\ \E e \in RaisedErrors \cap CaughtErrors :
         /\ requests' = Append(requests, Raised(e))
         /\ last_err' = e
         /\ IF attempt < retries
            THEN pc' = "fetch_sleep" /\ fret' = fret
            ELSE pc' = "fetch_done" /\ fret' = Raised(e)
    /\ UNCHANGED <<retries, backoff_s, attempt, sleeps>>
    /\ UNCHANGED <<classifyVars, extractVars, mainVars>>

\* the request raises an exception the except clause does not catch
FetchOtherError ==
    /\ pc = "fetch_try"
    /\ attempt <= retries
    /\ \E e \in RaisedErrors \ CaughtErrors :
         /\ requests' = Append(requests, Raised(e))
         /\ fret' = Raised(e)
    /\ pc' = "fetch_done"
    /\ UNCHANGED <<retries, backoff_s, attempt, last_err, sleeps>>
    /\ UNCHANGED <<classifyVars, extractVars, mainVars>>

\* mutant: the same pause after every failed attempt
FetchSleep_Flat ==
    /\ pc = "fetch_sleep"
    /\ sleeps' = Append(sleeps, backoff_s)
    /\ attempt' = attempt + 1
    /\ pc' = "fetch_try"
    /\ UNCHANGED <<retries, backoff_s, last_err, requests, fret>>
    /\ UNCHANGED <<classifyVars, extractVars, mainVars>>

\* line 66, then the next round of the loop of line 58
FetchSleep ==
    /\ pc = "fetch_sleep"
    /\ sleeps' = Append(sleeps, backoff_s * attempt)
    /\ attempt' = attempt + 1
    /\ pc' = "fetch_try"
    /\ UNCHANGED <<retries, backoff_s, last_err, requests, fret>>
    /\ UNCHANGED <<classifyVars, extractVars, mainVars>>

\* line 70: the loop ended without a return or a raise, which takes
\* retries < 1; raising None is a TypeError
FetchExhausted ==
    /\ pc = "fetch_try"
    /\ attempt > retries
    /\ fret' = Raised(IF last_err = NONE THEN "TypeError" ELSE last_err)
    /\ pc' = "fetch_done"
    /\ UNCHANGED <<retries, backoff_s, attempt, last_err, sleeps, requests>>
    /\ UNCHANGED <<classifyVars, extractVars, mainVars>>

InitFetch ==
    /\ pc = "fetch_try"
    /\ \E r \in 0..MaxRetries, b \in 1..MaxBackoff : FetchEntry(r, b)
    /\ IdleClassify /\ IdleExtract /\ IdleMain

NextFetch == FetchSuccess \/ FetchCaughtError \/ FetchOtherError \/ FetchSleep \/ FetchExhausted

SpecFetch == InitFetch /\ [][NextFetch]_vars

\* a call of fetch_url runs on: every request ends (it has a timeout) and
\* every sleep ends
SpecFetchFair == SpecFetch /\ WF_vars(NextFetch)

-----------------------------------------------------------------------------
(* main: the loop over the sites (lines 297-346).  A status record keeps   *)
(* the fields the properties below read; receivedUtc, receivedText,        *)
(* snowtamNumber, hash and source are left out.                            *)

NumSites == 2      \* number of sites in airports.txt

DefaultRetries == 3
DefaultBackoff == 2
PaceEvery      == 10

\* read_airports_txt returns sorted(set(icaos))
AllIcaos == <<"EPWA", "LHBP", "LROP", "LZIB", "UKBB">>

icaos == SubSeq(AllIcaos, 1, NumSites)

Put(map, key, value) ==
    [k \in (DOMAIN map) \cup {key} |-> IF k = key THEN value ELSE map[k]]

\* line 299-302: the next site is taken up and fetch_url(url, timeout=35) called
MainFetchSite ==
    /\ pc = "main_loop"
    /\ n < Len(icaos)
    /\ n' = n + 1
    /\ retries' = DefaultRetries
    /\ backoff_s' = DefaultBackoff
    /\ attempt' = 1
    /\ last_err' = NONE
    /\ sleeps' = <<>>
    /\ requests' = <<>>
    /\ fret' = Pending
    /\ pc' = "fetch_try"
    /\ UNCHANGED <<status_airports, fetched, paced>>
    /\ UNCHANGED <<classifyVars, extractVars>>

\* after the record of site n is stored: the pacing sleep of lines 343-344
Pace == IF n % PaceEvery = 0 THEN paced + 1 ELSE paced

\* lines 302-330: fetch_url returned; the page is cut up and classified
MainRecordStatus ==
    /\ pc = "fetch_done"
    /\ n >= 1
    /\ fret.kind = "return"
    /\ LET icao        == icaos[n]
           html        == fret.body
           b           == extract_text_blocks(html)
           has_snowtam == Strip(b.raw) # <<>>
           v           == snowtam_severity(b.raw, b.decode)
       IN /\ text' = html
          /\ blocks' = b
          /\ raw' = b.raw
          /\ decode' = b.decode
          /\ verdict' = v
          /\ status_airports' = Put(status_airports, icao,
                [ icao           |-> icao,
                  hasSnowtam     |-> has_snowtam,
                  severity       |-> IF ~has_snowtam THEN "ok" ELSE v[1],
                  raw            |-> Strip(b.raw),
                  decode         |-> Strip(b.decode),
                  decodeOpposite |-> Strip(b.decode2),
                  summary        |-> v[2] ])
          /\ fetched' = Put(fetched, icao, fret)
    /\ paced' = Pace
    /\ pc' = "main_loop"
    /\ UNCHANGED <<n, fetchVars>>

\* mutant: a failed fetch ends the loop
MainRecordError_Stops ==
    /\ pc = "fetch_done"
    /\ n >= 1
    /\ fret.kind = "raise"
    /\ fetched' = Put(fetched, icaos[n], fret)
    /\ pc' = "main_done"
    /\ UNCHANGED <<n, status_airports, paced, fetchVars, classifyVars, extractVars>>

\* lines 331-340: fetch_url raised; the site gets an unknown record
MainRecordError ==
    /\ pc = "fetch_done"
    /\ n >= 1
    /\ fret.kind = "raise"
    /\ LET icao == icaos[n]
       IN /\ status_airports' = Put(status_airports, icao,
                [ icao       |-> icao,
                  hasSnowtam |-> FALSE,
                  severity   |-> "unknown",
                  error      |-> fret.err ])
          /\ fetched' = Put(fetched, icao, fret)
    /\ paced' = Pace
    /\ pc' = "main_loop"
    /\ UNCHANGED <<n, fetchVars, classifyVars, extractVars>>

\* lines 348-361: the loop is over and the payloads are written
MainWrite ==
    /\ pc = "main_loop"
    /\ n = Len(icaos)
    /\ pc' = "main_done"
    /\ UNCHANGED <<mainVars, fetchVars, classifyVars, extractVars>>

InitMain ==
    /\ pc = "main_loop"
    /\ IdleMain /\ IdleFetch /\ IdleClassify /\ IdleExtract

NextMain ==
    \/ MainFetchSite
    \/ FetchSuccess \/ FetchCaughtError \/ FetchOtherError \/ FetchSleep
    \/ MainRecordStatus \/ MainRecordError
    \/ MainWrite

SpecMain == InitMain /\ [][NextMain]_vars

-----------------------------------------------------------------------------
(* Properties of snowtam_severity.  The conditions of the claims are       *)
(* stated on raw and decode themselves, not through the operators of the   *)
(* classifier: "occurs in raw+decode" is read as "occurs in raw or in      *)
(* decode", letter case ignored.                                           *)

Classified == pc = "classified"

Tier    == verdict[1]
Summary == verdict[2]

\* every character of s is whitespace (s may be empty)
AllWhitespace(s) == \A i \in DOMAIN s : s[i] \in WS

\* the upper-case keyword kw occurs in s, letter case ignored
OccursIn(kw, s) ==
    \E i \in 1..Len(s) :
        /\ i + Len(kw) - 1 <= Len(s)
        /\ \A k \in 1..Len(kw) : UpperTok(s[i + k - 1]) = kw[k]

InEither(kw) == OccursIn(kw, raw) \/ OccursIn(kw, decode)

ClosurePresent     == InEither(<<"CLOSED">>) \/ InEither(<<"CLSD">>)
BrakingPoorPresent == InEither(<<"BRAKING", " ", "ACTION">>) /\ InEither(<<"POOR">>)
SpacePoorPresent   == InEither(<<" ", "POOR">>)

\* tokens p..q of s are whitespace, and there is at least one
WsRun(s, p, q) == p <= q /\ \A j \in p..q : s[j] \in WS

\* the positions q after p such that tokens p..q-1 are a whitespace run and
\* token q is a digit
DigitAfterWs(s, p) == { q \in DOMAIN s : WsRun(s, p, q - 1) /\ IsDigit(s[q]) }

\* the label SURFACE CONDITION CODE stands at i of s, letter case ignored
LabelAt(s, i) ==
    \A k \in 1..Len(KW_SCC) : i + k - 1 <= Len(s) /\ UpperTok(s[i + k - 1]) = KW_SCC[k]

\* the digit triples <<d, d, d>> of the triplets of s whose label stands at i
TripletsAt(s, i) ==
    IF ~LabelAt(s, i) THEN {}
    ELSE UNION { UNION { { <<IntOf(s[a]), IntOf(s[b]), IntOf(s[c])>> :
                             c \in DigitAfterWs(s, b + 1) } :
                         b \in DigitAfterWs(s, a + 1) } :
                 a \in DigitAfterWs(s, i + Len(KW_SCC)) }

\* the digits of all triplets of decode
TripletDigits ==
    UNION { UNION { {t[1], t[2], t[3]} : t \in TripletsAt(decode, i) } : i \in DOMAIN decode }

Least(S) == CHOOSE m \in S : \A x \in S : m <= x

\* C1 as stated: CLSD anywhere in raw or decode, in any letter case, gives
\* tier red, for blank raw too.
C1_ClsdAlwaysRed ==
    (Classified /\ InEither(<<"CLSD">>)) => Tier = "red"

\* C1 amended: when raw is not blank, CLSD anywhere in raw or decode, in any
\* letter case, gives tier red whatever codes and other text are present.
C1_ClsdRedWhenRawNotBlank ==
    (Classified /\ ~AllWhitespace(raw) /\ InEither(<<"CLSD">>)) => Tier = "red"

\* lower-case clsd only in decode, next to codes 5 5 5, still gives red
C1_Witness ==
    /\ Classified /\ ~AllWhitespace(raw) /\ ~OccursIn(<<"CLSD">>, raw)
    /\ OccursIn(<<"CLSD">>, decode) /\ ~Contains(decode, <<"CLSD">>)
    /\ TripletDigits = {5}
    /\ Tier = "red"

\* C2: blank raw gives exactly (ok, "No valid SNOWTAM") for every decode, and
\* a raw that is not blank gives yellow, orange or red, never ok or unknown.
C2_OkExactlyForBlankRaw ==
    Classified =>
        /\ AllWhitespace(raw) => verdict = <<"ok", "No valid SNOWTAM">>
        /\ Tier = "ok" => AllWhitespace(raw)
        /\ ~AllWhitespace(raw) => Tier \in {"yellow", "orange", "red"}

\* whitespace-only raw with a closure indicator and codes in decode gives ok
C2_Witness ==
    /\ Classified /\ raw # <<>> /\ AllWhitespace(raw)
    /\ OccursIn(<<"CLSD">>, decode) /\ TripletDigits # {}
    /\ verdict = <<"ok", "No valid SNOWTAM">>

\* C3: raw not blank, no closure indicator, not both BRAKING ACTION and POOR,
\* at least one triplet in decode: minCode is the least digit of all
\* triplets; red for minCode <= 2, orange for 3..4, and for >= 5 yellow, or
\* orange when " POOR" occurs; the summary reports minCode and the POOR flag.
C3_CodesDecideTier ==
    (Classified /\ ~AllWhitespace(raw) /\ ~ClosurePresent /\ ~BrakingPoorPresent
        /\ TripletDigits # {})
    => LET minCode == Least(TripletDigits)
       IN /\ Tier = IF minCode <= 2 THEN "red"
                    ELSE IF minCode <= 4 THEN "orange"
                    ELSE IF SpacePoorPresent THEN "orange" ELSE "yellow"
          /\ Summary = <<"minRWYCC=", minCode, "; poorAreas=", SpacePoorPresent>>

\* codes 5 5 5 in decode and " POOR" in raw alone: yellow is raised to orange
C3_Witness ==
    /\ Classified /\ ~ClosurePresent /\ ~BrakingPoorPresent
    /\ TripletDigits = {5}
    /\ OccursIn(<<" ", "POOR">>, raw) /\ ~OccursIn(<<"POOR">>, decode)
    /\ Tier = "orange"
    /\ Summary = <<"minRWYCC=", 5, "; poorAreas=", TRUE>>

C5_NoCodesFallback ==
    (Classified /\ ~AllWhitespace(raw) /\ ~ClosurePresent /\ ~BrakingPoorPresent
        /\ TripletDigits = {})
    => verdict = IF SpacePoorPresent
                 THEN <<"orange", "Could not parse RWYCC; POOR movement area noted">>
                 ELSE <<"yellow", "Could not parse RWYCC; SNOWTAM present">>

\* a triplet in raw, the label with two digits only in decode, no POOR
C5_Witness ==
    /\ Classified /\ ~ClosurePresent
    /\ Contains(raw, KW_SCC) /\ FindCodes(raw, 1) # <<>>
    /\ Contains(decode, KW_SCC) /\ \E j \in DOMAIN decode : IsDigit(decode[j])
    /\ TripletDigits = {}
    /\ verdict = <<"yellow", "Could not parse RWYCC; SNOWTAM present">>


-----------------------------------------------------------------------------
(* Properties of extract_text_blocks, stated on the text and its lines     *)

Extracted == pc = "extracted"

\* kw stands at index i of the text
At(kw, i) ==
    /\ i + Len(kw) - 1 <= Len(text)
    /\ \A k \in 1..Len(kw) : text[i + k - 1] = kw[k]

Positions(kw) == { i \in 1..Len(text) : At(kw, i) }

\* the least position of kw at or after index from, 0 when there is none
FirstFrom(kw, from) ==
    LET P == { i \in Positions(kw) : i >= from }
    IN IF P = {} THEN 0 ELSE Least(P)

\* the primary heading stands somewhere on its own, not as the beginning of
\* the opposite-direction heading
PrimaryHeadingPresent == \E i \in Positions(KW_UPLD) : ~At(KW_OPP, i)

OppositeHeadingPresent == Positions(KW_OPP) # {}

\* d is region with the whitespace at both ends removed
TrimOf(region, d) ==
    \/ d = <<>> /\ AllWhitespace(region)
    \/ /\ d # <<>> /\ d[1] \notin WS /\ d[Len(d)] \notin WS
       /\ \E i \in 1..Len(region) :
            /\ i + Len(d) - 1 <= Len(region)
            /\ \A k \in 1..Len(region) :
                 IF k < i \/ k >= i + Len(d) THEN region[k] \in WS
                 ELSE region[k] = d[k - i + 1]

\* tokens i..j of the text, <<>> when i > j
Between(i, j) == [k \in 1..(IF j >= i THEN j - i + 1 ELSE 0) |-> text[i + k - 1]]

\* d is made of text that lies strictly before index p
LiesBefore(d, p) ==
    d = <<>> \/ \E i \in 1..(p - 1) : i + Len(d) - 1 < p /\ Between(i, i + Len(d) - 1) = d

\* C6: a decode heading missing from the text gives an empty block: no
\* primary heading of its own gives an empty primary block, no
\* opposite-direction heading gives an empty opposite block.
C6_MissingHeadingEmptyBlock ==
    Extracted =>
        /\ ~PrimaryHeadingPresent => blocks.decode = <<>>
        /\ ~OppositeHeadingPresent => blocks.decode2 = <<>>

\* C7 as stated: with both headings in the text the primary block is not
\* empty and lies strictly before the opposite-direction heading, and the
\* opposite block is not empty and ends before "Select voice:".
C7_BothBlocksNonEmptyAndBounded ==
    (Extracted /\ PrimaryHeadingPresent /\ OppositeHeadingPresent) =>
        /\ blocks.decode # <<>>
        /\ LiesBefore(blocks.decode, FirstFrom(KW_OPP, 1))
        /\ ~Contains(blocks.decode, KW_OPP)
        /\ blocks.decode2 # <<>>
        /\ ~Contains(blocks.decode2, KW_SELECT)

\* C7 amended: with both headings in the text, the opposite block is the
\* trimmed text between the first opposite-direction heading and the first
\* "Select voice:" after it (the end of the text when none follows); the
\* primary block never holds an opposite-direction heading; when the first
\* UNOFFICIAL PLAIN LANGUAGE DECODE of the text is a primary heading, the
\* primary block is the trimmed text between it and the first
\* opposite-direction heading, so it lies strictly before that heading; when
\* it is the beginning of an opposite-direction heading, the primary block
\* begins with OPPOSITE DIRECTION and runs to the next opposite-direction
\* heading or the end of the text.  A block is empty exactly when the text
\* it is cut from is blank.
C7_BlocksAreTrimmedSlices ==
    (Extracted /\ PrimaryHeadingPresent /\ OppositeHeadingPresent) =>
        LET a   == FirstFrom(KW_UPLD, 1)
            o   == FirstFrom(KW_OPP, 1)
            sv  == FirstFrom(KW_SELECT, o + Len(KW_OPP))
            o2  == FirstFrom(KW_OPP, a + Len(KW_UPLD))
        IN /\ TrimOf(Between(o + Len(KW_OPP), IF sv = 0 THEN Len(text) ELSE sv - 1),
                     blocks.decode2)
           /\ ~Contains(blocks.decode2, KW_SELECT)
           /\ ~Contains(blocks.decode, KW_OPP)
           /\ a # o => /\ TrimOf(Between(a + Len(KW_UPLD), o - 1), blocks.decode)
                       /\ LiesBefore(blocks.decode, o)
           /\ a = o => /\ TrimOf(Between(a + Len(KW_UPLD), IF o2 = 0 THEN Len(text) ELSE o2 - 1),
                                 blocks.decode)
                       /\ MatchesAt(blocks.decode, <<"OPPOSITE", " ", "DIRECTION">>, 1)

\* primary heading, text, opposite heading, text, "Select voice:": both blocks
\* hold the text between their bounds
C7_Witness ==
    /\ Extracted
    /\ FirstFrom(KW_UPLD, 1) # FirstFrom(KW_OPP, 1)
    /\ FirstFrom(KW_OPP, 1) # 0
    /\ FirstFrom(KW_SELECT, FirstFrom(KW_OPP, 1)) # 0
    /\ blocks.decode = <<"x">>
    /\ blocks.decode2 = <<"x">>

(* C9 is stated over ls, the non-blank lines of the text *)

MentionsIn(kw, ln) ==
    \E i \in 1..Len(ln) : i + Len(kw) - 1 <= Len(ln) /\ SubSeq(ln, i, i + Len(kw) - 1) = kw

\* line i qualifies as a report header
IsHeader(ls, i) ==
    /\ ls[i][1] = "SW"
    /\ \/ \E j \in i..(i + 4) : j <= Len(ls) /\ MentionsIn(KW_SNOWTAM, ls[j])
       \/ Len(Split(ls[i])) >= 3 /\ FullMatchIcao(Split(ls[i])[2])

Headers(ls) == { i \in 1..Len(ls) : IsHeader(ls, i) }

ClosesReport(ls, k) == ls[k][Len(ls[k])] = ")" \/ EndsWith(ls[k], <<")", ".">>)

\* the decode heading appears within the Window lines that follow line k
DecodeFollows(ls, k) ==
    \E j \in (k + 1)..(k + Window) : j <= Len(ls) /\ MentionsIn(KW_UPLD, ls[j])

\* the decode heading appears within the Window lines that begin at line s
DecodeNear(ls, s) ==
    \E j \in s..(s + Window - 1) : j <= Len(ls) /\ MentionsIn(KW_UPLD, ls[j])

\* the block of lines s..e
LinesBlock(ls, s, e) == Join([k \in 1..(e - s + 1) |-> ls[s + k - 1]], <<"\n">>)

-----------------------------------------------------------------------------
(* Properties of main's loop and of fetch_url                              *)

Sites == { icaos[i] : i \in 1..Len(icaos) }

\* what C8 says of the record of a site whose fetch has ended
RecordMatchesFetch(site) ==
    LET rec == status_airports[site]
        how == fetched[site]
    IN /\ rec.icao = site
       /\ rec.severity = "unknown" <=> how.kind = "raise"
       /\ how.kind = "return" =>
            /\ rec.hasSnowtam = FALSE <=> RawBlock(how.body) = <<>>
            /\ rec.hasSnowtam = FALSE => rec.severity = "ok"

\* C8: when the loop is over every site of the list has its status record,
\* whatever fetches failed; a record has severity unknown exactly when the
\* fetch of the site's page failed, and any other record has hasSnowtam false
\* exactly when the extracted raw block is empty, with severity ok then.
C8_EverySiteHasItsRecord ==
    /\ DOMAIN status_airports = DOMAIN fetched
    /\ DOMAIN status_airports \subseteq Sites
    /\ \A site \in DOMAIN status_airports : RecordMatchesFetch(site)
    /\ pc = "main_done" => DOMAIN status_airports = Sites

\* the fetch of the first site failed on every attempt, the second site was
\* still fetched and has a report
C8_Witness ==
    /\ pc = "main_done"
    /\ fetched[icaos[1]].kind = "raise"
    /\ status_airports[icaos[1]].severity = "unknown"
    /\ fetched[icaos[2]].kind = "return"
    /\ status_airports[icaos[2]].hasSnowtam
    /\ status_airports[icaos[2]].severity = "yellow"

IsCaught(req) == req.kind = "raise" /\ req.err \in CaughtErrors

\* what C10 says of every state of a call with retries >= 1
FetchRetriesInOrder ==
    retries >= 1 =>
        /\ Len(requests) <= retries
        \* every attempt but the latest failed with a caught error
        /\ \A k \in 1..(Len(requests) - 1) : IsCaught(requests[k])
        \* after failed attempt k < N comes a sleep of backoff_s * k
        /\ \A k \in 1..Len(sleeps) : sleeps[k] = backoff_s * k
        /\ pc = "fetch_try" => Len(requests) = attempt - 1 /\ Len(sleeps) = attempt - 1
        /\ pc = "fetch_sleep" =>
              /\ Len(requests) = attempt /\ Len(sleeps) = attempt - 1
              /\ attempt < retries /\ IsCaught(requests[attempt])
        /\ pc = "fetch_done" =>
              /\ fret.kind \in {"return", "raise"}
              /\ Len(requests) >= 1
              /\ fret = requests[Len(requests)]
              /\ Len(sleeps) = Len(requests) - 1
              /\ IsCaught(fret) => Len(requests) = retries

\* C10: a call of fetch_url with retries = N >= 1 ends after at most N
\* requests: it returns the body of the first request that succeeds and
\* makes no request after it; after failed attempt k < N it sleeps
\* backoff_s * k and tries again; when all N fail with a caught error it
\* raises the error of the N-th without sleeping after it; it never ends
\* without a body or an error.
C10_FetchEndsWithinRetries ==
    /\ [] FetchRetriesInOrder
    /\ <> (pc = "fetch_done")

\* three attempts failed with caught errors: two sleeps, of backoff_s and
\* 2 * backoff_s, and the third error raised
C10_Witness ==
    /\ pc = "fetch_done"
    /\ retries = 3 /\ backoff_s = 2
    /\ Len(requests) = 3
    /\ \A k \in 1..3 : IsCaught(requests[k])
    /\ requests[2].err # requests[3].err
    /\ sleeps = <<2, 4>>
    /\ fret = Raised(requests[3].err)

=============================================================================
